---- MODULE Spec2Model ----
(***************************************************************************)
(* A model of solution/solution.py: matrix_to_sycamore_operations.         *)
(*                                                                         *)
(* One call of the function is a straight-line program.  The program       *)
(* counter pc names the source line that runs next; every library call is  *)
(* opaque: it either raises or returns, and what the Sycamore converter    *)
(* and optimizer return is any operation list over the qubits their input  *)
(* circuit has.  calls is the trace of the library calls made so far.      *)
(***************************************************************************)
EXTENDS Integers, Sequences, FiniteSets

VARIABLES target_qubits, matrix, pc, qc, qasm, qx, convertor, qz, qy, ans,
          result, exc, calls

vars == <<target_qubits, matrix, pc, qc, qasm, qx, convertor, qz, qy, ans,
          result, exc, calls>>

(* ------------------------------ bounds -------------------------------- *)

\* Longest target list a caller passes (one above the size guard's limit).
MaxQubits == 5

\* Longest operation list a Sycamore pass returns.
MaxOps == 2

\* Number of distinct unitaries a caller passes per size.
NumMatrices == 2

(* ------------------------------ values -------------------------------- *)

\* The limit of the size guard.
MaxSupportedQubits == 4

\* A local that has not been assigned yet.
Unset == [fn |-> "unset"]

\* cirq.GridQubit(row, col): what the caller's list holds.
GridQubit(row, col) == <<"GridQubit", row, col>>

\* Bit i of the register of the qiskit circuit, the only qubit reference the
\* pipeline is ever given: QuantumCircuit(n) and list(range(n)).
QasmQubit(i) == <<"q", i>>

RECURSIVE Pow2(_)
Pow2(n) == IF n = 0 THEN 1 ELSE 2 * Pow2(n - 1)

Range(s) == {s[i] : i \in 1..Len(s)}

\* The target lists of length n the model tries: a row of the grid, in
\* either order.
TargetLists(n) ==
    { [i \in 1..n |-> GridQubit(0, i - 1)],
      [i \in 1..n |-> GridQubit(0, n - i)] }

\* The matrices for n qubits: opaque but for their size.
Matrices(n) == { [dim |-> Pow2(n), id |-> k] : k \in 1..NumMatrices }

\* The exceptions a library call raises.
Exceptions == {"QiskitError", "TypeError"}

\* The operations a circuit read from the QASM text of an n-bit register
\* can hold after the Sycamore passes.
LibOps(n) ==
    { [gate |-> "PhasedXZ", qubits |-> <<QasmQubit(i)>>] : i \in {0, n - 1} }
    \cup (IF n >= 2
          THEN { [gate |-> "SYC", qubits |-> <<QasmQubit(0), QasmQubit(1)>>] }
          ELSE {})

OpLists(n) == UNION { [1..k -> LibOps(n)] : k \in 0..MaxOps }

\* The first component of a returned pair: NotImplemented, or a list.
NotImplementedSentinel == [kind |-> "NotImplemented", list |-> <<>>]
OpTree(ops) == [kind |-> "list", list |-> ops]

(* ------------------------- pieces of the code ------------------------- *)

\* len(target_qubits) > 4
TooManyQubitsOffByOne(tq) == Len(tq) > MaxSupportedQubits + 1
TooManyQubitsInclusive(tq) == Len(tq) >= MaxSupportedQubits
TooManyQubits(tq) == Len(tq) > MaxSupportedQubits

\* return <ops>, []
ReturnPairWithTargets(ops) == [ops |-> ops, ancillas |-> target_qubits]
ReturnPair(ops) == [ops |-> ops, ancillas |-> <<>>]

\* qz if len(qy) > len(qz) else qy
SelectLonger(z, y) == IF Len(y) < Len(z) THEN z ELSE y
SelectTieConverted(z, y) == IF Len(y) >= Len(z) THEN z ELSE y
Select(z, y) == IF Len(y) > Len(z) THEN z ELSE y

\* One entry of the trace of library calls.
Call(fn, arg, outcome) == [fn |-> fn, arg |-> arg, outcome |-> outcome]

\* A library call raises e: nothing in the function catches it, so the call
\* of matrix_to_sycamore_operations ends with e and returns nothing.
RaiseCaught(fn, arg, e) ==
    /\ calls' = Append(calls, Call(fn, arg, e))
    /\ pc' = "done"
    /\ exc' = <<>>
    /\ result' = <<ReturnPair(NotImplementedSentinel)>>
Raise(fn, arg, e) ==
    /\ calls' = Append(calls, Call(fn, arg, e))
    /\ pc' = "raised"
    /\ exc' = <<[type |-> e, from |-> fn]>>
    /\ result' = result

\* A library call returns.
Returns(fn, arg, next) ==
    /\ calls' = Append(calls, Call(fn, arg, "ok"))
    /\ pc' = next
    /\ exc' = exc
    /\ result' = result

(* ------------------------------- Init --------------------------------- *)

Init ==
    /\ \E n \in 1..MaxQubits :
          /\ target_qubits \in TargetLists(n)
          /\ matrix \in Matrices(n)
    /\ pc = "L31"
    /\ qc = Unset
    /\ qasm = Unset
    /\ qx = Unset
    /\ convertor = Unset
    /\ qz = Unset
    /\ qy = Unset
    /\ ans = Unset
    /\ result = <<>>
    /\ exc = <<>>
    /\ calls = <<>>

(* ------------------------------ actions ------------------------------- *)

\* Line 31-32: the size guard.
L31AfterConstruct ==
    /\ pc = "L31"
    /\ IF TooManyQubits(target_qubits)
       THEN /\ pc' = "done"
            /\ result' = <<ReturnPair(NotImplementedSentinel)>>
            /\ calls' = Append(calls, Call("qiskit.QuantumCircuit",
                                           Len(target_qubits), "ok"))
       ELSE /\ pc' = "L35"
            /\ result' = result
            /\ calls' = calls
    /\ UNCHANGED <<target_qubits, matrix, qc, qasm, qx, convertor, qz, qy,
                   ans, exc>>
L31 ==
    /\ pc = "L31"
    /\ IF TooManyQubits(target_qubits)
       THEN /\ pc' = "done"
            /\ result' = <<ReturnPair(NotImplementedSentinel)>>
       ELSE /\ pc' = "L35"
            /\ result' = result
    /\ UNCHANGED <<target_qubits, matrix, qc, qasm, qx, convertor, qz, qy,
                   ans, exc, calls>>

\* Line 35: qc = qiskit.QuantumCircuit(len(target_qubits))
L35 ==
    /\ pc = "L35"
    /\ LET n == Len(target_qubits) IN
         \/ /\ Returns("qiskit.QuantumCircuit", n, "L36")
            /\ qc' = [width |-> n, data |-> <<>>]
         \/ /\ \E e \in Exceptions : Raise("qiskit.QuantumCircuit", n, e)
            /\ qc' = qc
    /\ UNCHANGED <<target_qubits, matrix, qasm, qx, convertor, qz, qy, ans>>

\* Line 36: qc.unitary(matrix, list(range(len(target_qubits))))
L36 ==
    /\ pc = "L36"
    /\ LET qargs == [i \in 1..Len(target_qubits) |-> i - 1]
           arg == <<matrix, qargs>>
       IN
         \/ /\ Returns("QuantumCircuit.unitary", arg, "L37")
            /\ qc' = [qc EXCEPT !.data =
                        Append(@, [gate |-> "unitary", matrix |-> matrix,
                                   qargs |-> qargs])]
         \/ /\ \E e \in Exceptions : Raise("QuantumCircuit.unitary", arg, e)
            /\ qc' = qc
    /\ UNCHANGED <<target_qubits, matrix, qasm, qx, convertor, qz, qy, ans>>

\* Line 37: qc = qiskit.transpile(qc, basis_gates=['cx', 'u3'])
L37 ==
    /\ pc = "L37"
    /\ \/ /\ Returns("qiskit.transpile", qc, "L40")
          /\ qc' = [fn |-> "qiskit.transpile", arg |-> qc,
                    basis_gates |-> <<"cx", "u3">>]
       \/ /\ \E e \in Exceptions : Raise("qiskit.transpile", qc, e)
          /\ qc' = qc
    /\ UNCHANGED <<target_qubits, matrix, qasm, qx, convertor, qz, qy, ans>>

\* Line 40: qasm = qc.qasm()
L40 ==
    /\ pc = "L40"
    /\ \/ /\ Returns("QuantumCircuit.qasm", qc, "L41")
          /\ qasm' = [fn |-> "QuantumCircuit.qasm", arg |-> qc]
       \/ /\ \E e \in Exceptions : Raise("QuantumCircuit.qasm", qc, e)
          /\ qasm' = qasm
    /\ UNCHANGED <<target_qubits, matrix, qc, qx, convertor, qz, qy, ans>>

\* Line 41: qx = cirq.Circuit(qasm_import.circuit_from_qasm(qasm)); the two
\* nested calls are the one import step, traced under the importer's name.
L41 ==
    /\ pc = "L41"
    /\ \/ /\ Returns("qasm_import.circuit_from_qasm", qasm, "L43")
          /\ qx' = [fn |-> "cirq.Circuit",
                    arg |-> [fn |-> "qasm_import.circuit_from_qasm",
                             arg |-> qasm]]
       \/ /\ \E e \in Exceptions :
                Raise("qasm_import.circuit_from_qasm", qasm, e)
          /\ qx' = qx
    /\ UNCHANGED <<target_qubits, matrix, qc, qasm, convertor, qz, qy, ans>>

\* Line 43: convertor = cirq.google.ConvertToSycamoreGates()
L43 ==
    /\ pc = "L43"
    /\ \/ /\ Returns("ConvertToSycamoreGates", <<>>, "L44")
          /\ convertor' = [fn |-> "ConvertToSycamoreGates"]
       \/ /\ \E e \in Exceptions : Raise("ConvertToSycamoreGates", <<>>, e)
          /\ convertor' = convertor
    /\ UNCHANGED <<target_qubits, matrix, qc, qasm, qx, qz, qy, ans>>

\* Line 44: qz = convertor.convert(qx)
L44 ==
    /\ pc = "L44"
    /\ \/ /\ Returns("ConvertToSycamoreGates.convert", qx, "L46")
          /\ qz' \in OpLists(Len(target_qubits))
       \/ /\ \E e \in Exceptions :
                Raise("ConvertToSycamoreGates.convert", qx, e)
          /\ qz' = qz
    /\ UNCHANGED <<target_qubits, matrix, qc, qasm, qx, convertor, qy, ans>>

\* Line 46: qy = cirq.Circuit(qz)
L46FromImported ==
    /\ pc = "L46"
    /\ \/ /\ Returns("cirq.Circuit", qx, "L47")
          /\ qy' = [fn |-> "cirq.Circuit", arg |-> qx]
       \/ /\ \E e \in Exceptions : Raise("cirq.Circuit", qx, e)
          /\ qy' = qy
    /\ UNCHANGED <<target_qubits, matrix, qc, qasm, qx, convertor, qz, ans>>
L46 ==
    /\ pc = "L46"
    /\ \/ /\ Returns("cirq.Circuit", qz, "L47")
          /\ qy' = [fn |-> "cirq.Circuit", arg |-> qz]
       \/ /\ \E e \in Exceptions : Raise("cirq.Circuit", qz, e)
          /\ qy' = qy
    /\ UNCHANGED <<target_qubits, matrix, qc, qasm, qx, convertor, qz, ans>>

\* Line 47: qy = cirq.google.optimized_for_sycamore(qy)
L47 ==
    /\ pc = "L47"
    /\ \/ /\ Returns("optimized_for_sycamore", qy, "L48")
          /\ \E ops \in OpLists(Len(target_qubits)) :
                qy' = [fn |-> "optimized_for_sycamore", ops |-> ops]
       \/ /\ \E e \in Exceptions : Raise("optimized_for_sycamore", qy, e)
          /\ qy' = qy
    /\ UNCHANGED <<target_qubits, matrix, qc, qasm, qx, convertor, qz, ans>>

\* Line 48: qy = list(qy.all_operations())
L48 ==
    /\ pc = "L48"
    /\ \/ /\ Returns("Circuit.all_operations", qy, "L50")
          /\ qy' = qy.ops
       \/ /\ \E e \in Exceptions : Raise("Circuit.all_operations", qy, e)
          /\ qy' = qy
    /\ UNCHANGED <<target_qubits, matrix, qc, qasm, qx, convertor, qz, ans>>

\* Line 50: ans = qz if len(qy) > len(qz) else qy
L50 ==
    /\ pc = "L50"
    /\ ans' = Select(qz, qy)
    /\ pc' = "L51"
    /\ UNCHANGED <<target_qubits, matrix, qc, qasm, qx, convertor, qz, qy,
                   result, exc, calls>>

\* Line 51: return ans, []
L51 ==
    /\ pc = "L51"
    /\ result' = <<ReturnPair(OpTree(ans))>>
    /\ pc' = "done"
    /\ UNCHANGED <<target_qubits, matrix, qc, qasm, qx, convertor, qz, qy,
                   ans, exc, calls>>

Next ==
    \/ L31 \/ L35 \/ L36 \/ L37 \/ L40 \/ L41 \/ L43 \/ L44
    \/ L46 \/ L47 \/ L48 \/ L50 \/ L51

Spec == Init /\ [][Next]_vars

(* ------------------------------- claims ------------------------------- *)

n == Len(target_qubits)

Returned == pc = "done" /\ Len(result) = 1

\* The names of the library calls made so far, in order.
CallNames == [i \in 1..Len(calls) |-> calls[i].fn]

\* The library calls of one complete run of the pipeline, in source order.
PipelineStages ==
    << "qiskit.QuantumCircuit", "QuantumCircuit.unitary", "qiskit.transpile",
       "QuantumCircuit.qasm", "qasm_import.circuit_from_qasm",
       "ConvertToSycamoreGates", "ConvertToSycamoreGates.convert",
       "cirq.Circuit", "optimized_for_sycamore", "Circuit.all_operations" >>

\* C1: a call with more than 4 target qubits never enters the pipeline and
\* never raises; it returns the pair (NotImplemented, []) whatever the matrix.
C1_SizeGuardRejects ==
    n > 4 =>
        /\ pc \in {"L31", "done"}
        /\ pc = "done" =>
              result = <<[ops |-> NotImplementedSentinel, ancillas |-> <<>>]>>

C1_Witness ==
    /\ Returned
    /\ n = 5
    /\ matrix.id = NumMatrices
    /\ result[1].ops.kind = "NotImplemented"

\* C3: on both return paths (the size guard and the end of the pipeline) the
\* second component of the returned pair is the empty list.
C3_AncillasEmpty ==
    pc = "done" => (Len(result) = 1 /\ result[1].ancillas = <<>>)

C3_Witness ==
    /\ Returned
    /\ n <= 4
    /\ result[1].ops.kind = "list"
    /\ Len(result[1].ops.list) = MaxOps
    /\ result[1].ancillas = <<>>

\* C4: a call with at most 4 qubits that returns normally returns a list no
\* longer than the converter's output qz.
C4_NoLongerThanConverted ==
    (pc = "done" /\ n <= 4) =>
        /\ result[1].ops.kind = "list"
        /\ Len(result[1].ops.list) <= Len(qz)

C4_Witness ==
    /\ Returned
    /\ n <= 4
    /\ Len(qy) > Len(qz)
    /\ Len(result[1].ops.list) = Len(qz)

\* C5: every returned operation acts only on qubits of the caller's
\* target_qubits list or of the returned ancilla list.
C5_OpsActOnTargetQubits ==
    (pc = "done" /\ n <= 4) =>
        \A i \in 1..Len(result[1].ops.list) :
            Range(result[1].ops.list[i].qubits)
                \subseteq Range(target_qubits) \cup Range(result[1].ancillas)

\* C6: with more than 4 target qubits no library call is ever made, in
\* particular none before the return.
C6_NoLibraryCallWhenRejected ==
    n > 4 => calls = <<>>

C6_Witness ==
    /\ Returned
    /\ n > 4
    /\ matrix.id = 1
    /\ calls = <<>>

\* C7: in the final selection the optimized list qy is returned whenever it
\* is not longer than the converted list qz (ties included); qz is returned
\* only when qy is strictly longer.
C7_TiesFavourOptimized ==
    (pc = "done" /\ n <= 4) =>
        /\ Len(qy) <= Len(qz) => result[1].ops.list = qy
        /\ Len(qy) > Len(qz) => result[1].ops.list = qz

C7_Witness ==
    /\ Returned
    /\ n <= 4
    /\ Len(qy) = Len(qz)
    /\ qy # qz
    /\ result[1].ops.list = qy

\* C10: among the calls that return, NotImplemented is returned exactly when
\* there are more than 4 target qubits; with at most 4 (4 included) the first
\* component is one of the two candidate lists qz and qy.
C10_SentinelIffTooMany ==
    pc = "done" =>
        /\ Len(result) = 1
        /\ (result[1].ops.kind = "NotImplemented") <=> (n > 4)
        /\ n <= 4 =>
              /\ result[1].ops.kind = "list"
              /\ result[1].ops.list \in {qz, qy}

C10_Witness ==
    /\ Returned
    /\ n = 4
    /\ result[1].ops.kind = "list"
    /\ result[1].ops.list = qz
    /\ qz # qy

\* C8: the library calls happen in source order, each once: the trace is
\* always a prefix of PipelineStages and is all of it when a call with at
\* most 4 qubits returns; the converter is given the imported circuit qx, the
\* optimizer is given a circuit built from the converter's output qz, the
\* flattening is given the optimizer's output, and the comparison (lines
\* 50-51) runs only when both candidate lists exist.
C8_StagesOnceInOrder ==
    /\ Len(calls) <= Len(PipelineStages)
    /\ CallNames = SubSeq(PipelineStages, 1, Len(calls))
    /\ (pc \in {"L50", "L51"} \/ (pc = "done" /\ n <= 4)) =>
          /\ CallNames = PipelineStages
          /\ \A i \in 1..Len(calls) : calls[i].outcome = "ok"
          /\ calls[7].arg = qx
          /\ calls[8].arg = qz
          /\ calls[9].arg = [fn |-> "cirq.Circuit", arg |-> qz]
          /\ calls[10].arg.ops = qy
          /\ qz \in OpLists(n)
          /\ qy \in OpLists(n)

C8_Witness ==
    /\ Returned
    /\ n = 2
    /\ CallNames = PipelineStages
    /\ Len(qz) = 1
    /\ Len(qy) = 1

\* C9: a library call that raises is the last call made: the function ends
\* with that exception (same type, from that call), returns no pair and no
\* sentinel, and the failed call was made once.
C9_FailurePropagates ==
    /\ \A i \in 1..Len(calls) :
          calls[i].outcome # "ok" =>
              /\ i = Len(calls)
              /\ pc = "raised"
              /\ result = <<>>
              /\ exc = <<[type |-> calls[i].outcome, from |-> calls[i].fn]>>
              /\ Cardinality({j \in 1..Len(calls) : calls[j].fn = calls[i].fn}) = 1
    /\ pc = "raised" =>
          /\ Len(exc) = 1
          /\ Len(calls) >= 1
          /\ calls[Len(calls)].outcome = exc[1].type

C9_Witness ==
    /\ pc = "raised"
    /\ result = <<>>
    /\ Len(calls) = 3
    /\ exc = <<[type |-> "QiskitError", from |-> "qiskit.transpile"]>>

====
